---- MODULE Spec2Model ----
(***************************************************************************)
(* The NYC Neighborhood Complaint Index dashboard (src/streamlit.py): one  *)
(* Streamlit script that is run top to bottom on every page load and on    *)
(* every widget interaction.  A run opens a Neo4j driver and session, loads *)
(* the complaint table through a memoized query, filters it by the selected *)
(* ZIP code, renders one of five charts, offers the filtered view as CSV,   *)
(* queries the graph store for the ZIP's complaint edges, renders them and  *)
(* closes the session and the driver.  An exception anywhere ends the run.  *)
(***************************************************************************)
EXTENDS Integers, Sequences, FiniteSets, TLC

VARIABLES
    store,            \* the graph store: its (Zip)-[HAS_COMPLAINT]->(ComplaintType) matches, in match order
    cache,            \* st.cache_data's memo of load_data_from_neo4j (process-wide)
    driver,           \* this run's driver: "unset", "open" or "closed"
    session,          \* this run's session: "unset", "open" or "closed"
    pc,               \* the position of the run in the script
    error,            \* the exception that ended the run, None when there is none
    df,               \* line 47
    zip_options,      \* line 67: the options of the ZIP selectbox
    selected_zip,     \* line 67
    filtered_df,      \* line 70
    complaint_counts, \* lines 75-76
    viz_option,       \* line 81
    fig,              \* the chart handed to st.plotly_chart
    download,         \* the download button's data and file name
    graph_data,       \* line 150
    network,          \* the pyvis graph of lines 153-157
    rendered,         \* the page elements this run has put on the page
    loadQueriesRun,   \* table-load queries sent to the store in this run
    graphQueriesRun,  \* per-key graph queries sent to the store in this run
    loadQueriesSeq,   \* table-load queries sent since the last page load
    failedQuery       \* the query of this run the store failed: "none", "load" or "graph"

vars == <<store, cache, driver, session, pc, error, df, zip_options,
          selected_zip, filtered_df, complaint_counts, viz_option, fig,
          download, graph_data, network, rendered, loadQueriesRun,
          graphQueriesRun, loadQueriesSeq, failedQuery>>

-----------------------------------------------------------------------------
(* Bounds of the model *)

MaxRows == 2          \* matches the store holds at most
MaxDay == 14          \* TrendSpec: Created_date ranges over day 0..MaxDay

-----------------------------------------------------------------------------
(* Values.  A property the store may not hold (Cypher null, Python None,   *)
(* pandas NaN) is None; a value v that is there is Some(v).                 *)

None == [has |-> FALSE]
Some(v) == [has |-> TRUE, val |-> v]
Val(o) == o.val

Unset == [unset |-> TRUE]    \* a Python name the run has not assigned yet

ZipNodes ==
    { [code |-> Some(10001), borough |-> Some("BRONX")],
      [code |-> Some(10002), borough |-> None],
      [code |-> None,        borough |-> Some("QUEENS")] }

ComplaintNodes ==
    { [type |-> Some("Noise"), name |-> Some("Noise")],
      [type |-> None,          name |-> Some("Parking")] }

Counts == {1, 2}

Matches == [z : ZipNodes, c : ComplaintNodes, count : Counts]

RECURSIVE SeqsUpTo(_, _)
SeqsUpTo(S, n) ==
    IF n = 0 THEN { <<>> }
    ELSE LET shorter == SeqsUpTo(S, n - 1)
         IN  shorter \cup { Append(s, x) : s \in { t \in shorter : Len(t) = n - 1 }, x \in S }

Stores == SeqsUpTo(Matches, MaxRows)

Range(s) == { s[i] : i \in 1..Len(s) }

RECURSIVE SumSeq(_)
SumSeq(s) == IF s = <<>> THEN 0 ELSE Head(s) + SumSeq(Tail(s))

-----------------------------------------------------------------------------
(* pandas *)

\* pd.DataFrame(records): the columns are the keys of the first record; no
\* record, no column.
QueryColumns == <<"Incident_zip", "Complaint_type", "Borough", "count">>

\* tx.run(query).data() of lines 26-36: one record per match.
LoadRecords(st) ==
    [i \in 1..Len(st) |->
        [Incident_zip   |-> st[i].z.code,
         Complaint_type |-> st[i].c.type,
         Borough        |-> st[i].z.borough,
         count          |-> st[i].count]]

\* df['Borough'].fillna('UNKNOWN')
FillNa(v, dflt) == IF v = None THEN Some(dflt) ELSE v

\* Lines 37-45 on a non-empty result: Borough filled, and Created_date the
\* i-th day from 2023-01-01 (day 0) for the i-th row.
BuildTable(records) ==
    [columns |-> Append(QueryColumns, "Created_date"),
     rows    |-> [i \in 1..Len(records) |->
                    [Incident_zip   |-> records[i].Incident_zip,
                     Complaint_type |-> records[i].Complaint_type,
                     Borough        |-> FillNa(records[i].Borough, "UNKNOWN"),
                     count          |-> records[i].count,
                     Created_date   |-> i - 1]]]

\* series == scalar: a missing value on either side compares False.
PandasEq(a, b) == a # None /\ b # None /\ a = b

\* Series.dropna().unique(): the values there are, in first-seen order.
RECURSIVE UniqueSeq(_, _)
UniqueSeq(s, seen) ==
    IF s = <<>> THEN <<>>
    ELSE IF Head(s) \in seen THEN UniqueSeq(Tail(s), seen)
    ELSE <<Head(s)>> \o UniqueSeq(Tail(s), seen \cup {Head(s)})

DropNa(s) == SelectSeq(s, LAMBDA v : v # None)

Column(table, col) == [i \in 1..Len(table.rows) |-> table.rows[i][col]]

\* sorted(...) of line 67 on ZIP codes.
RECURSIVE Insert(_, _)
Insert(x, s) ==
    IF s = <<>> THEN <<x>>
    ELSE IF Val(x) < Val(Head(s)) THEN <<x>> \o s
    ELSE <<Head(s)>> \o Insert(x, Tail(s))

RECURSIVE Sorted(_)
Sorted(s) == IF s = <<>> THEN <<>> ELSE Insert(Head(s), Sorted(Tail(s)))

\* Fault variant of ZipOptions: sorted() is left out.
ZipOptionsUnsorted(table) == UniqueSeq(DropNa(Column(table, "Incident_zip")), {})

\* Lines 66-67: the options of the ZIP selectbox.
ZipOptions(table) == Sorted(UniqueSeq(DropNa(Column(table, "Incident_zip")), {}))

\* Fault variant of FilterRows: the mask is not applied.
FilterRowsAll(table, key) == table

\* Line 70: df[df['Incident_zip'] == selected_zip]
FilterRows(table, key) ==
    [columns |-> table.columns,
     rows    |-> SelectSeq(table.rows, LAMBDA r : PandasEq(r.Incident_zip, key))]

\* Series.value_counts(): missing values are dropped (dropna=True), one entry
\* per value, by count descending, ties in first-seen order.
CountOf(s, v) == Cardinality({ i \in 1..Len(s) : s[i] = v })

RECURSIVE InsertByCount(_, _)
InsertByCount(e, s) ==
    IF s = <<>> THEN <<e>>
    ELSE IF e.count > Head(s).count THEN <<e>> \o s
    ELSE <<Head(s)>> \o InsertByCount(e, Tail(s))

RECURSIVE SortByCount(_)
SortByCount(s) ==
    IF s = <<>> THEN <<>>
    ELSE InsertByCount(s[Len(s)], SortByCount(SubSeq(s, 1, Len(s) - 1)))

ValueCounts(s) ==
    LET labels == UniqueSeq(DropNa(s), {})
    IN  SortByCount([i \in 1..Len(labels) |->
                        [label |-> Val(labels[i]), count |-> CountOf(s, labels[i])]])

\* The two-level grouping px.sunburst makes of path=["Borough",
\* "Complaint_type"]: one leaf per (Borough, Complaint_type) pair with the
\* number of its rows.
Hierarchy(table) ==
    LET pairs  == [i \in 1..Len(table.rows) |->
                      [Borough        |-> table.rows[i].Borough,
                       Complaint_type |-> table.rows[i].Complaint_type]]
        leaves == UniqueSeq(pairs, {})
    IN  [i \in 1..Len(leaves) |->
            [Borough        |-> leaves[i].Borough,
             Complaint_type |-> leaves[i].Complaint_type,
             count          |-> CountOf(pairs, leaves[i])]]

\* The label of the weekly bin of day d under resample('W'): weeks end on
\* Sunday, a bin is closed and labelled on its right end, and day 0
\* (2023-01-01) is a Sunday.
WeekEnd(d) == ((d + 6) \div 7) * 7

SetMin(S) == CHOOSE x \in S : \A y \in S : x <= y
SetMax(S) == CHOOSE x \in S : \A y \in S : x >= y

\* Fault variant of Resample: a groupby of the weeks that hold a row, which
\* leaves the empty weeks out.
ResamplePresentWeeks(dates) ==
    LET weeks == Sorted(UniqueSeq([i \in 1..Len(dates) |-> Some(WeekEnd(dates[i]))], {}))
    IN  [i \in 1..Len(weeks) |->
            [Created_date |-> Val(weeks[i]),
             count        |-> Cardinality({ j \in 1..Len(dates) :
                                  WeekEnd(dates[j]) = Val(weeks[i]) })]]

\* Line 115: set_index('Created_date').resample('W').size(): one bin per
\* week from the week of the first date to the week of the last one, each
\* with the number of its rows.
Resample(dates) ==
    IF dates = <<>> THEN <<>>
    ELSE LET first == WeekEnd(SetMin(Range(dates)))
             last  == WeekEnd(SetMax(Range(dates)))
         IN  [i \in 1..((last - first) \div 7 + 1) |->
                [Created_date |-> first + 7 * (i - 1),
                 count        |-> Cardinality({ j \in 1..Len(dates) :
                                      WeekEnd(dates[j]) = first + 7 * (i - 1) })]]

-----------------------------------------------------------------------------
(* The chart dispatch of lines 86-134 *)

VizOptions ==
    { "Bar Chart", "Pie Chart", "Sunburst Chart", "Complaint Trend Over Time",
      "Top Boroughs (Overall)" }

\* The figure the if/elif chain builds for `opt`; None when no branch is taken.
ChartFor(opt, counts, view, table) ==
    IF opt = "Bar Chart" THEN
        Some([kind |-> "bar", of |-> "complaint_counts", data |-> counts])
    ELSE IF opt = "Pie Chart" THEN
        Some([kind |-> "pie", of |-> "complaint_counts", data |-> counts])
    ELSE IF opt = "Sunburst Chart" THEN
        Some([kind |-> "sunburst", of |-> "filtered_df", data |-> Hierarchy(view)])
    ELSE IF opt = "Complaint Trend Over Time" THEN
        Some([kind |-> "line", of |-> "daily_trend",
              data |-> Resample(Column(view, "Created_date"))])
    ELSE IF opt = "Top Boroughs (Overall)" THEN
        Some([kind |-> "bar", of |-> "borough_counts",
              data |-> ValueCounts(Column(table, "Borough"))])
    ELSE None

-----------------------------------------------------------------------------
(* The export of lines 140-145 *)

TwoDigits(n) == IF n < 10 THEN "0" \o ToString(n) ELSE ToString(n)

\* A Created_date as to_csv writes it; day 0 is 2023-01-01.
DateStr(d) ==
    IF d < 31 THEN "2023-01-" \o TwoDigits(d + 1)
    ELSE IF d < 59 THEN "2023-02-" \o TwoDigits(d - 30)
    ELSE "2023-03-" \o TwoDigits(d - 58)

\* One cell as to_csv writes it: a missing value is the empty string.
CsvCell(row, col) ==
    IF col = "Incident_zip" THEN
        (IF row.Incident_zip = None THEN "" ELSE ToString(Val(row.Incident_zip)))
    ELSE IF col = "Complaint_type" THEN
        (IF row.Complaint_type = None THEN "" ELSE Val(row.Complaint_type))
    ELSE IF col = "Borough" THEN
        (IF row.Borough = None THEN "" ELSE Val(row.Borough))
    ELSE IF col = "count" THEN ToString(row.count)
    ELSE DateStr(row.Created_date)

RECURSIVE JoinComma(_)
JoinComma(cells) ==
    IF cells = <<>> THEN ""
    ELSE IF Len(cells) = 1 THEN cells[1]
    ELSE cells[1] \o "," \o JoinComma(Tail(cells))

\* filtered_df.to_csv(index=False): the header line, then one line per row.
ToCsv(table) ==
    <<JoinComma(table.columns)>> \o
    [i \in 1..Len(table.rows) |->
        JoinComma([c \in 1..Len(table.columns) |-> CsvCell(table.rows[i], table.columns[c])])]

\* f"complaints_{selected_zip}.csv"
FileName(key) ==
    "complaints_" \o (IF key = None THEN "None" ELSE ToString(Val(key))) \o ".csv"

-----------------------------------------------------------------------------
(* The per-key graph query of lines 50-58 *)

\* The matches of (z:Zip {code: $zip})-[r:HAS_COMPLAINT]->(c:ComplaintType) as
\* (zip, complaint, count) triples; a null $zip matches no node.
GraphTriples(st, key) ==
    LET hits == SelectSeq(st, LAMBDA m : key # None /\ m.z.code = key)
    IN  [i \in 1..Len(hits) |->
            [zip |-> hits[i].z.code, complaint |-> hits[i].c.name, count |-> hits[i].count]]

Orderings(n) == { p \in [1..n -> 1..n] : \A i, j \in 1..n : i # j => p[i] # p[j] }

\* ORDER BY count DESC
OrderedDesc(s) == \A i \in 1..(Len(s) - 1) : s[i].count >= s[i + 1].count

\* Fault variant of GraphResults: the query without its ORDER BY.
GraphResultsUnordered(st, key) ==
    LET triples == GraphTriples(st, key)
        n       == Len(triples)
    IN  { [i \in 1..n |-> triples[p[i]]] : p \in Orderings(n) }

\* What the query may return: its triples ordered by count descending, rows of
\* equal count in any order.
GraphResults(st, key) ==
    LET triples == GraphTriples(st, key)
        n       == Len(triples)
    IN  { s \in { [i \in 1..n |-> triples[p[i]]] : p \in Orderings(n) } : OrderedDesc(s) }

\* Lines 153-157: the root node of the ZIP, a node per complaint (add_node of
\* an id the graph has is a no-op) and an edge per triple.
BuildNetwork(key, triples) ==
    [root   |-> key,
     leaves |-> UniqueSeq([i \in 1..Len(triples) |-> triples[i].complaint], {}),
     edges  |-> [i \in 1..Len(triples) |->
                    [from  |-> triples[i].zip,
                     to    |-> triples[i].complaint,
                     value |-> triples[i].count]]]

-----------------------------------------------------------------------------
(* The script run *)

runVars == <<df, zip_options, selected_zip, filtered_df, complaint_counts,
             viz_option, fig, download, graph_data, network>>

Init ==
    /\ store \in Stores
    /\ cache = None
    /\ driver = "unset"
    /\ session = "unset"
    /\ pc = "start"
    /\ error = None
    /\ df = Unset
    /\ zip_options = Unset
    /\ selected_zip = Unset
    /\ filtered_df = Unset
    /\ complaint_counts = Unset
    /\ viz_option = Unset
    /\ fig = Unset
    /\ download = Unset
    /\ graph_data = Unset
    /\ network = Unset
    /\ rendered = {}
    /\ loadQueriesRun = 0
    /\ graphQueriesRun = 0
    /\ loadQueriesSeq = 0
    /\ failedQuery = "none"

\* An exception nothing catches: Streamlit shows it and the run ends there.
Abort(step, exc) ==
    /\ pc' = "aborted"
    /\ error' = Some([step |-> step, exc |-> exc])

\* Lines 18-21: the driver and the session are opened (neither connects yet).
Connect ==
    /\ pc = "start"
    /\ driver' = "open"
    /\ session' = "open"
    /\ rendered' = rendered \cup {"connected"}
    /\ pc' = "load"
    /\ UNCHANGED <<store, cache, error, runVars, loadQueriesRun, graphQueriesRun,
                   loadQueriesSeq>>
    /\ UNCHANGED failedQuery

\* Fault variant of Memoize: the decorator is missing and nothing is kept.
MemoizeNothing(table) == None

\* st.cache_data keeps what the function returned.
Memoize(table) == Some(table)

\* Fault variant of LoadFailure: the exception is swallowed and the run goes
\* on with an empty table.
LoadFailureSwallowed ==
    /\ df' = [columns |-> Append(QueryColumns, "Created_date"), rows |-> <<>>]
    /\ pc' = "select"
    /\ UNCHANGED <<cache, error>>

\* tx.run of line 35 raises: nothing catches it in load_data_from_neo4j or
\* at line 47, and st.cache_data stores nothing.
LoadFailure ==
    /\ Abort("load", "ServiceUnavailable")
    /\ UNCHANGED <<df, cache>>

\* Line 47, with lines 24-45 behind st.cache_data: a memoized table is
\* returned without a query; otherwise the query is sent once.
LoadData ==
    /\ pc = "load"
    /\ IF cache # None
       THEN /\ df' = Val(cache)
            /\ pc' = "select"
            /\ UNCHANGED <<cache, error, loadQueriesRun, loadQueriesSeq, failedQuery>>
       ELSE /\ loadQueriesRun' = loadQueriesRun + 1
            /\ loadQueriesSeq' = loadQueriesSeq + 1
            /\ \/ /\ failedQuery' = "load"
                  /\ LoadFailure
               \/ /\ store = <<>>
                  \* pd.DataFrame([]) has no column: df['Borough'] raises
                  /\ Abort("load", "KeyError")
                  /\ UNCHANGED <<df, cache, failedQuery>>
               \/ /\ store # <<>>
                  /\ df' = BuildTable(LoadRecords(store))
                  /\ cache' = Memoize(df')
                  /\ pc' = "select"
                  /\ UNCHANGED <<error, failedQuery>>
    /\ UNCHANGED <<store, driver, session, zip_options, selected_zip, filtered_df,
                   complaint_counts, viz_option, fig, download, graph_data, network,
                   rendered, graphQueriesRun>>

\* Lines 64-67: the selectbox returns the option the user has selected, and
\* None when it has no option.
SelectZip ==
    /\ pc = "select"
    /\ LET opts == ZipOptions(df)
       IN  /\ zip_options' = Some(opts)
           /\ selected_zip' \in (IF opts = <<>> THEN {None} ELSE Range(opts))
    /\ rendered' = rendered \cup {"sidebar"}
    /\ pc' = "filter"
    /\ UNCHANGED <<store, cache, driver, session, error, df, filtered_df,
                   complaint_counts, viz_option, fig, download, graph_data, network,
                   loadQueriesRun, graphQueriesRun, loadQueriesSeq>>
    /\ UNCHANGED failedQuery

\* Lines 70-76
FilterData ==
    /\ pc = "filter"
    /\ filtered_df' = FilterRows(df, selected_zip)
    /\ complaint_counts' = Some(ValueCounts(Column(filtered_df', "Complaint_type")))
    /\ rendered' = rendered \cup {"summary"}
    /\ pc' = "viz"
    /\ UNCHANGED <<store, cache, driver, session, error, df, zip_options,
                   selected_zip, viz_option, fig, download, graph_data, network,
                   loadQueriesRun, graphQueriesRun, loadQueriesSeq>>
    /\ UNCHANGED failedQuery

\* Lines 81-84: the selectbox returns one of its five options.
ChooseViz ==
    /\ pc = "viz"
    /\ viz_option' \in { Some(o) : o \in VizOptions }
    /\ pc' = "chart"
    /\ UNCHANGED <<store, cache, driver, session, error, df, zip_options,
                   selected_zip, filtered_df, complaint_counts, fig, download,
                   graph_data, network, rendered, loadQueriesRun, graphQueriesRun,
                   loadQueriesSeq>>
    /\ UNCHANGED failedQuery

\* Lines 86-134: the branch of viz_option builds its figure and plots it; with
\* no branch taken nothing is plotted and the script goes on.
RenderChart ==
    /\ pc = "chart"
    /\ LET chart == ChartFor(Val(viz_option), Val(complaint_counts), filtered_df, df)
       IN  \/ /\ fig' = chart
              /\ rendered' = IF chart # None THEN rendered \cup {"chart"} ELSE rendered
              /\ pc' = "export"
              /\ UNCHANGED error
           \/ /\ chart # None
              \* plotly or st.plotly_chart raises
              /\ Abort("chart", "RenderError")
              /\ UNCHANGED <<fig, rendered>>
    /\ UNCHANGED <<store, cache, driver, session, df, zip_options, selected_zip,
                   filtered_df, complaint_counts, viz_option, download, graph_data,
                   network, loadQueriesRun, graphQueriesRun, loadQueriesSeq>>
    /\ UNCHANGED failedQuery

\* Lines 137-145: the records table and the download button.
ShowRecords ==
    /\ pc = "export"
    /\ \/ /\ download' = [data |-> ToCsv(filtered_df), file_name |-> FileName(selected_zip)]
          /\ rendered' = rendered \cup {"table", "download"}
          /\ pc' = "query"
          /\ UNCHANGED error
       \/ /\ Abort("export", "RenderError")
          /\ UNCHANGED <<download, rendered>>
    /\ UNCHANGED <<store, cache, driver, session, df, zip_options, selected_zip,
                   filtered_df, complaint_counts, viz_option, fig, graph_data, network,
                   loadQueriesRun, graphQueriesRun, loadQueriesSeq>>
    /\ UNCHANGED failedQuery

\* tx.run of line 57 (or iterating its result) raises: nothing catches it.
GraphFailure ==
    /\ Abort("query", "ServiceUnavailable")
    /\ UNCHANGED graph_data

\* Line 150: get_zip_graph_data(selected_zip), never memoized.
QueryGraph ==
    /\ pc = "query"
    /\ graphQueriesRun' = graphQueriesRun + 1
    /\ \/ /\ failedQuery' = "graph"
          /\ GraphFailure
       \/ /\ graph_data' \in { Some(res) : res \in GraphResults(store, selected_zip) }
          /\ pc' = "graph"
          /\ UNCHANGED <<error, failedQuery>>
    /\ UNCHANGED <<store, cache, driver, session, df, zip_options, selected_zip,
                   filtered_df, complaint_counts, viz_option, fig, download, network,
                   rendered, loadQueriesRun, loadQueriesSeq>>

\* Lines 152-166: the network when there is graph data, the warning when not.
RenderGraph ==
    /\ pc = "graph"
    /\ IF Val(graph_data) # <<>>
       THEN \/ /\ network' = BuildNetwork(selected_zip, Val(graph_data))
               /\ rendered' = rendered \cup {"graph"}
               /\ pc' = "close"
               /\ UNCHANGED error
            \/ \* pyvis, the temporary file or components.html raises
               /\ Abort("graph", "RenderError")
               /\ UNCHANGED <<network, rendered>>
       ELSE /\ rendered' = rendered \cup {"warning"}
            /\ pc' = "close"
            /\ UNCHANGED <<network, error>>
    /\ UNCHANGED <<store, cache, driver, session, df, zip_options, selected_zip,
                   filtered_df, complaint_counts, viz_option, fig, download, graph_data,
                   loadQueriesRun, graphQueriesRun, loadQueriesSeq>>
    /\ UNCHANGED failedQuery

\* Lines 169-170
CloseResources ==
    /\ pc = "close"
    /\ session' = "closed"
    /\ driver' = "closed"
    /\ pc' = "done"
    /\ UNCHANGED <<store, cache, error, runVars, rendered, loadQueriesRun,
                   graphQueriesRun, loadQueriesSeq>>
    /\ UNCHANGED failedQuery

\* Streamlit runs the script again from line 1 with fresh module names; the
\* memo of st.cache_data outlives the run.
NewRun ==
    /\ pc \in {"done", "aborted"}
    /\ pc' = "start"
    /\ driver' = "unset"
    /\ session' = "unset"
    /\ error' = None
    /\ df' = Unset
    /\ zip_options' = Unset
    /\ selected_zip' = Unset
    /\ filtered_df' = Unset
    /\ complaint_counts' = Unset
    /\ viz_option' = Unset
    /\ fig' = Unset
    /\ download' = Unset
    /\ graph_data' = Unset
    /\ network' = Unset
    /\ rendered' = {}
    /\ loadQueriesRun' = 0
    /\ graphQueriesRun' = 0
    /\ failedQuery' = "none"
    /\ UNCHANGED <<store, cache>>

\* The user changes the ZIP or the visualization selectbox: a rerun, which
\* needs the last run to have put the selectboxes on the page.
Interact ==
    /\ "sidebar" \in rendered
    /\ NewRun
    /\ UNCHANGED loadQueriesSeq

\* The user loads the page anew: a run that follows no widget interaction.
Reload ==
    /\ NewRun
    /\ loadQueriesSeq' = 0

\* The store is written to by others: here, a HAS_COMPLAINT match goes away.
StoreChange ==
    /\ store # <<>>
    /\ store' = SubSeq(store, 1, Len(store) - 1)
    /\ UNCHANGED <<cache, driver, session, pc, error, runVars, rendered,
                   loadQueriesRun, graphQueriesRun, loadQueriesSeq>>
    /\ UNCHANGED failedQuery

Next ==
    \/ Connect
    \/ LoadData
    \/ SelectZip
    \/ FilterData
    \/ ChooseViz
    \/ RenderChart
    \/ ShowRecords
    \/ QueryGraph
    \/ RenderGraph
    \/ CloseResources
    \/ Interact
    \/ Reload
    \/ StoreChange

Spec == Init /\ [][Next]_vars

-----------------------------------------------------------------------------
(* The filter, the aggregations, the chart dispatch and the export as       *)
(* functions of their inputs: a run taken up after line 67 with any loaded  *)
(* table, any key (in the table or not) and any visualization name.         *)

\* The state of a run that has loaded the matches `st` and holds `key`.
Loaded(st, key) ==
    /\ store = st
    /\ df = BuildTable(LoadRecords(st))
    /\ cache = Some(df)
    /\ driver = "open"
    /\ session = "open"
    /\ pc = "filter"
    /\ error = None
    /\ zip_options = Some(ZipOptions(df))
    /\ selected_zip = key
    /\ filtered_df = Unset
    /\ complaint_counts = Unset
    /\ viz_option = Unset
    /\ fig = Unset
    /\ download = Unset
    /\ graph_data = Unset
    /\ network = Unset
    /\ rendered = {"connected", "sidebar"}
    /\ loadQueriesRun = 1
    /\ graphQueriesRun = 0
    /\ loadQueriesSeq = 1
    /\ failedQuery = "none"

KeyInputs == {None} \cup { Some(z) : z \in {10001, 10002, 10003} }

VizInputs == VizOptions \cup {"Heatmap"}

PipelineInit ==
    \E st \in Stores \ { <<>> } : \E key \in KeyInputs : Loaded(st, key)

\* The dispatch of lines 86-134 entered with any visualization name.
DispatchInput ==
    /\ pc = "viz"
    /\ viz_option' \in { Some(o) : o \in VizInputs }
    /\ pc' = "chart"
    /\ UNCHANGED <<store, cache, driver, session, error, df, zip_options,
                   selected_zip, filtered_df, complaint_counts, fig, download,
                   graph_data, network, rendered, loadQueriesRun, graphQueriesRun,
                   loadQueriesSeq, failedQuery>>

PipelineNext ==
    \/ FilterData
    \/ DispatchInput
    \/ RenderChart
    \/ ShowRecords

PipelineSpec == PipelineInit /\ [][PipelineNext]_vars

-----------------------------------------------------------------------------
(* The weekly trend over tables long enough to span several weeks: one row  *)
(* a day from day 0 to day MaxDay, each of ZIP 10001 or 10002.              *)

TrendMatches ==
    { m \in Matches : /\ m.z.code \in {Some(10001), Some(10002)}
                      /\ m.c.type = Some("Noise")
                      /\ m.count = 1 }

TrendInit ==
    \E st \in [1..(MaxDay + 1) -> TrendMatches] : Loaded(st, Some(10001))

TrendNext ==
    \/ FilterData
    \/ ChooseViz
    \/ RenderChart

TrendSpec == TrendInit /\ [][TrendNext]_vars

-----------------------------------------------------------------------------
(* Properties *)

\* C1: a run never ends, normally or by an exception in the load, in the
\* graph query or in a rendering step, with its session or its driver still
\* open.
C1_ReleasedOnEveryExit ==
    pc \in {"done", "aborted"} => session = "closed" /\ driver = "closed"

\* C2: the filtered view holds exactly the records of the table whose
\* Incident_zip is the key (a missing Incident_zip is no postal code and
\* equals no key), so it is no longer than the table; with a key that is no
\* postal code of the table the view is empty, and filtering raises nothing.
C2_FilterExact ==
    filtered_df # Unset =>
        LET T    == df.rows
            V    == filtered_df.rows
            hits == { i \in 1..Len(T) : selected_zip # None /\ T[i].Incident_zip = selected_zip }
        IN  /\ Range(V) = { T[i] : i \in hits }
            /\ Len(V) = Cardinality(hits)
            /\ Len(V) <= Len(T)
            /\ (hits = {} => V = <<>>)
            /\ (pc = "viz" => error = None)

\* C2, its case: a key of the table that selects some records and not all.
C2_Witness ==
    /\ filtered_df # Unset
    /\ filtered_df.rows # <<>>
    /\ Len(filtered_df.rows) < Len(df.rows)

\* C3: the counts of complaint_counts sum to the number of records of the
\* filtered view.
C3_CountsSumToViewSize ==
    complaint_counts # Unset =>
        SumSeq([i \in 1..Len(Val(complaint_counts)) |-> Val(complaint_counts)[i].count])
            = Len(filtered_df.rows)

ExpectedChart(opt) ==
    IF opt = "Bar Chart" THEN [kind |-> "bar", of |-> "complaint_counts"]
    ELSE IF opt = "Pie Chart" THEN [kind |-> "pie", of |-> "complaint_counts"]
    ELSE IF opt = "Sunburst Chart" THEN [kind |-> "sunburst", of |-> "filtered_df"]
    ELSE IF opt = "Complaint Trend Over Time" THEN [kind |-> "line", of |-> "daily_trend"]
    ELSE [kind |-> "bar", of |-> "borough_counts"]

C5_QueryFailureSurfaces ==
    /\ loadQueriesRun <= 1
    /\ graphQueriesRun <= 1
    /\ failedQuery = "load" =>
           /\ pc = "aborted"
           /\ error = Some([step |-> "load", exc |-> "ServiceUnavailable"])
           /\ loadQueriesRun = 1
           /\ df = Unset
           /\ cache = None
           /\ zip_options = Unset
           /\ selected_zip = Unset
           /\ filtered_df = Unset
           /\ complaint_counts = Unset
           /\ fig = Unset
           /\ download = Unset
           /\ graph_data = Unset
           /\ network = Unset
           /\ graphQueriesRun = 0
           /\ rendered = {"connected"}
    /\ failedQuery = "graph" =>
           /\ pc = "aborted"
           /\ error = Some([step |-> "query", exc |-> "ServiceUnavailable"])
           /\ graphQueriesRun = 1
           /\ graph_data = Unset
           /\ network = Unset
           /\ rendered \cap {"graph", "warning"} = {}

\* C5, its case: the table load has failed.
C5_Witness == failedQuery = "load" /\ pc = "aborted"

\* C6: over the runs that widget interactions start since a page load, the
\* table-load query is sent at most once; a memoized table is never changed;
\* the table a run works on is the memoized one; and the step of line 150
\* sends the per-key graph query in every run that reaches it.
C6_LoadedOnceGraphAfresh ==
    [][ /\ loadQueriesSeq' <= 1
        /\ (cache # None => cache' = cache)
        /\ (df' # Unset => cache' # None /\ df' = Val(cache'))
        /\ (pc = "query" /\ pc' # "query" =>
                graphQueriesRun = 0 /\ graphQueriesRun' = 1) ]_vars

\* C6, its case: a later run has finished on the memoized table without a
\* load query of its own and with a graph query of its own.
C6_Witness ==
    /\ pc = "done"
    /\ loadQueriesSeq = 1
    /\ loadQueriesRun = 0
    /\ graphQueriesRun = 1

\* C7: get_zip_graph_data(k) returns exactly the HAS_COMPLAINT matches the
\* store holds for the Zip nodes of code k, as (zip, complaint, count)
\* triples in non-increasing order of count; with no such match it returns
\* the empty sequence, and the run then shows the warning, builds no graph,
\* closes and is done.
C7_GraphQueryExact ==
    [][ /\ (pc = "query" /\ pc' = "graph") =>
               LET res    == Val(graph_data')
                   hits   == { i \in 1..Len(store) :
                                 selected_zip # None /\ store[i].z.code = selected_zip }
                   tr(i)  == [zip       |-> store[i].z.code,
                              complaint |-> store[i].c.name,
                              count     |-> store[i].count]
               IN  /\ Len(res) = Cardinality(hits)
                   /\ \A i \in hits :
                          Cardinality({ j \in 1..Len(res) : res[j] = tr(i) })
                              = Cardinality({ h \in hits : tr(h) = tr(i) })
                   /\ \A j \in 1..(Len(res) - 1) : res[j].count >= res[j + 1].count
                   /\ error' = None
        /\ (pc = "graph" /\ pc' # "graph" /\ Val(graph_data) = <<>>) =>
               /\ pc' = "close"
               /\ "warning" \in rendered'
               /\ "graph" \notin rendered'
               /\ network' = Unset
        /\ (pc = "close" /\ pc' # "close") => pc' = "done" ]_vars

\* C7, its case: the store holds no match for the selected ZIP code any
\* more; the run has shown the warning and is done.
C7_Witness ==
    /\ pc = "done"
    /\ selected_zip # None
    /\ graph_data = Some(<<>>)
    /\ "warning" \in rendered

\* The Monday of the calendar week of day d (day 1, 2023-01-02, is a Monday).
MondayOf(d) == d - ((d + 6) % 7)

\* C8: the weekly trend of a non-empty view has exactly one point for each
\* calendar week from the week of its earliest Created_date to the week of
\* its latest one, the point of a week counts the records of that week (0
\* when it has none), and the counts sum to the size of the view.
C8_WeeklyTrendNoGaps ==
    (fig # Unset /\ fig # None /\ Val(viz_option) = "Complaint Trend Over Time"
        /\ filtered_df.rows # <<>>) =>
        LET pts   == Val(fig).data
            dates == [i \in 1..Len(filtered_df.rows) |-> filtered_df.rows[i].Created_date]
            weeks == { m \in MondayOf(SetMin(Range(dates)))..MondayOf(SetMax(Range(dates))) :
                         MondayOf(m) = m }
        IN  /\ Len(pts) = Cardinality(weeks)
            /\ \A m \in weeks :
                   \E i \in 1..Len(pts) :
                       /\ pts[i].Created_date \in m..(m + 6)
                       /\ pts[i].count =
                              Cardinality({ j \in 1..Len(dates) : dates[j] \in m..(m + 6) })
            /\ SumSeq([i \in 1..Len(pts) |-> pts[i].count]) = Len(filtered_df.rows)

\* C8, its case: a trend with a week that holds no record.
C8_Witness ==
    /\ fig # Unset
    /\ fig # None
    /\ Val(viz_option) = "Complaint Trend Over Time"
    /\ \E i \in 1..Len(Val(fig).data) : Val(fig).data[i].count = 0

\* C9: the export holds one line per row of the filtered view under the
\* columns Incident_zip, Complaint_type, Borough, Created_date and no other,
\* and its file name is complaints_<key>.csv.
C9_ExportColumns ==
    download # Unset =>
        /\ Head(download.data) = "Incident_zip,Complaint_type,Borough,Created_date"
        /\ Len(download.data) = Len(filtered_df.rows) + 1
        /\ download.file_name =
               "complaints_"
                   \o (IF selected_zip = None THEN "None" ELSE ToString(Val(selected_zip)))
                   \o ".csv"

\* C10 as stated: the key list is duplicate-free and ascending, holds the
\* Incident_zip of every record of the table, missing ones included, and
\* holds the selected key.
C10_EveryRecordSelectable ==
    zip_options # Unset =>
        LET opts == Val(zip_options)
        IN  /\ \A i, j \in 1..Len(opts) : i < j => Val(opts[i]) < Val(opts[j])
            /\ \A i \in 1..Len(df.rows) : df.rows[i].Incident_zip \in Range(opts)
            /\ selected_zip \in Range(opts)

\* C10, amended: the key list is duplicate-free and ascending and holds
\* exactly the Incident_zip values that are present in the table; a record
\* whose Incident_zip is missing has no key; the selected key is in the list
\* when the list has a key, and is None when it has none.
C10_PresentZipsSelectable ==
    zip_options # Unset =>
        LET opts == Val(zip_options)
        IN  /\ \A i, j \in 1..Len(opts) : i < j => Val(opts[i]) < Val(opts[j])
            /\ \A i \in 1..Len(df.rows) :
                   df.rows[i].Incident_zip # None => df.rows[i].Incident_zip \in Range(opts)
            /\ \A o \in Range(opts) :
                   o # None /\ \E i \in 1..Len(df.rows) : df.rows[i].Incident_zip = o
            /\ (opts # <<>> => selected_zip \in Range(opts))
            /\ (opts = <<>> => selected_zip = None)

\* C10, its case: a table with a record whose Incident_zip is missing and a
\* record whose Incident_zip is selected.
C10_Witness ==
    /\ zip_options # Unset
    /\ pc = "filter"
    /\ \E i \in 1..Len(df.rows) : df.rows[i].Incident_zip = None
    /\ selected_zip \in Range(Val(zip_options))

====
